---- MODULE Spec2Model ----
(***************************************************************************)
(* Model of the "repasse medico" automation: main.py drives one            *)
(* Processamento object through inicializar, bd_importar_contas, executar  *)
(* and finalizar.  The persistent state is the source view                 *)
(* TASY.RPA_EMAIL_REPASSE_V and the staging table hos_repasse_medico; the  *)
(* process may be started again and again against the same database.       *)
(***************************************************************************)
EXTENDS Integers, Sequences, FiniteSets, TLC

\* ---------------------------------------------------------------- bounds
\* The source view holds at most MaxView rows.
MaxView == 4
\* The process (main) is started at most MaxExecucoes times.
MaxExecucoes == 2
\* At most MaxFalhas operations of the environment (a connection, a query, a
\* procedure call, an insert, a step of the ERP login) fail in one behaviour.
MaxFalhas == 1
\* Row cap of the import query.  The source says FETCH FIRST 50 ROWS ONLY
\* (processamento.py:286); the model scales the cap down so that views with
\* more eligible rows than the cap occur within MaxView.
FetchFirst == 3
\* The engine driven by a caller other than main (specification SpecEngine)
\* is explored for views of at most MaxViewEngine rows.
MaxViewEngine == 1
\* The elements of a page appear at times 0..MaxTempo + 1 and the calls of the
\* WebController have timeouts 1..MaxTempo.
MaxTempo == 2
\* A record that keeps status 'P' is worked on in at most MaxPassagens runs.
MaxPassagens == 2

\* ------------------------------------------------------ program constants
\* DT_LIB_TITULO >= TO_DATE('01/09/2025'): dates are 0 (before the cutoff),
\* 1 (the cutoff day) and 2 (later).
DataCorte == 1
\* and cd_estabelecimento = 4
Estabelecimento == 4
\* for tentativa in range(1, 11)
MaxTentativas == 10

VARIABLES
    view,                \* the rows of TASY.RPA_EMAIL_REPASSE_V (they do not change)
    hos_repasse_medico,  \* the staging table, rows in insertion order
    pc,                  \* main's position
    execucoes,           \* how many times main was started
    falhas,              \* failures of the environment so far
    dev_mode,            \* Config.dev_mode
    pr_registrar_log,    \* whether ROBO_RPA.PR_REGISTRAR_LOG succeeds in this process
    db,                  \* self.db: "None", "aberta", "fechada"
    owns_db,             \* self._owns_db
    navegador,           \* self.navegador: "None", "aberto", "fechado"
    owns_browser,        \* self._owns_browser
    controle_execucao,   \* self.controle_execucao (0 is None)
    url_tasy,            \* self.url_tasy: "unset", "None", "url"
    usuario_tasy,        \* self.usuario_tasy / senha_tasy: "unset", "ok"
    log,                 \* what registrar_log and the importer have logged in this process
    nav_calls,           \* the browser operations performed in this process
    rows,                \* bd_importar_contas: the fetched batch
    qtd_importados,      \* bd_importar_contas: its return value
    tabela,              \* executar: the records selected with status = 'P'
    login,               \* executar: what login_tasy returned ("nao", "True", "False")
    excecao,             \* the phase whose exception main caught ("nenhuma" if none)
    fechamentos,         \* how often this process called db.close() and fechar_navegador()
    fornecido,           \* history: which handles the constructor was given
    finalizacao,         \* ROBO_RPA.PR_FINALIZAR_EXECUCAO in this process: "nao", "ok", "erro"
    saida,               \* how main ends: "nenhuma" while it runs, "normal", an exception, "SIGKILL"
    fases,               \* history: the phases main has started in this process, in order
    levantou,            \* history: the methods that raised to their caller in this process
    web,                 \* the WebController under test: the page, the call, its outcome
    n_importacoes,       \* history: how many bd_importar_contas calls ran their loop to its end
    antes,               \* history: the staging table when the latest bd_importar_contas loop began
    verificadas,         \* history: how many existence checks of that loop returned
    cliente,             \* the DBClient under construction: its environment, the outcome
    repasse             \* the per-record workflow of executar's loop: the record, the page, the steps

vars == <<view, hos_repasse_medico, pc, execucoes, falhas, dev_mode, pr_registrar_log,
          db, owns_db, navegador, owns_browser, controle_execucao, url_tasy,
          usuario_tasy, log, nav_calls, rows, qtd_importados, tabela, login,
          excecao, fechamentos, fornecido, finalizacao, saida, fases, levantou, web,
          n_importacoes, antes, verificadas, cliente, repasse>>

\* ------------------------------------------------------------------ data
\* The transfer numbers (nr_repasse) of the view.
NrsRepasse == {1, 2, 3}

\* What a record carries besides its key and its release date.  The ERP knows
\* third party 10 and not 20; it accepts the address "aceito" and answers a
\* send to "rejeitado" with the dialog 'Operacao abortada'.
Perfis ==
    << [email |-> "aceito",    seq_terceiro |-> 10, nr_titulo |-> "t", dt_lib_repasse |-> "d"],
       [email |-> "None",      seq_terceiro |-> 10, nr_titulo |-> "t", dt_lib_repasse |-> "d"],
       [email |-> "aceito",    seq_terceiro |-> 20, nr_titulo |-> "t", dt_lib_repasse |-> "d"],
       [email |-> "rejeitado", seq_terceiro |-> 10, nr_titulo |-> "t", dt_lib_repasse |-> "d"] >>

\* The profile of the view's row for transfer nr released on dt: the four
\* profiles in turn.
PerfilDe(nr, dt) == Perfis[(((nr - 1) * 2 + (dt - 1)) % Len(Perfis)) + 1]

LinhaFonte(nr, dt, estab, p) ==
    [nr_repasse |-> nr, dt_lib_titulo |-> dt, cd_estabelecimento |-> estab,
     email |-> p.email, seq_terceiro |-> p.seq_terceiro,
     nr_titulo |-> p.nr_titulo, dt_lib_repasse |-> p.dt_lib_repasse]

\* The rows the view may hold: one per transfer number and release date on or
\* after the cutoff for establishment 4 (so a transfer number may be listed
\* twice), and two rows the query's WHERE clause rejects.
LinhasFonte ==
    { LinhaFonte(nr, dt, Estabelecimento, PerfilDe(nr, dt)) : nr \in NrsRepasse, dt \in {1, 2} }
    \cup { LinhaFonte(1, 0, Estabelecimento, Perfis[1]),
           LinhaFonte(2, 1, 1, Perfis[1]) }

Views == { v \in SUBSET LinhasFonte : Cardinality(v) <= MaxView }

\* The third parties the ERP's filter resolves.
TerceirosErp == {10}
\* The ERP answers the submit of the email form with 'Operacao abortada'.
ErpAborta(email) == email = "rejeitado"

\* What the destination-email field is filled with for record r (428-433).
Destino(r) == IF dev_mode THEN "aalves@austa.com.br" ELSE r.email

\* ------------------------------------------------------- database client
\* The import query: WHERE dt_lib_titulo >= cutoff AND cd_estabelecimento = 4.
Elegivel(r) == r.dt_lib_titulo >= DataCorte /\ r.cd_estabelecimento = Estabelecimento

Primeiras(s, n) == SubSeq(s, 1, IF Len(s) < n THEN Len(s) ELSE n)

\* What execute_query may return for the import query: the eligible rows
\* ORDER BY dt_lib_titulo ASC, cut after the first FetchFirst.  SQL leaves the
\* order of rows with equal dt_lib_titulo open, so every order of the ties is
\* a possible answer.
ConsultaFonte(v) ==
    LET e == { r \in v : Elegivel(r) }
        n == Cardinality(e)
        ordens == { s \in [1..n -> e] :
                      /\ \A i, j \in 1..n : i # j => s[i] # s[j]
                      /\ \A i \in 1..(n - 1) : s[i].dt_lib_titulo <= s[i + 1].dt_lib_titulo }
    IN  { Primeiras(s, FetchFirst) : s \in ordens }

\* Mutant of execute_scalar: the existence query matches nothing.
execute_scalar_nunca(tab, nr) == 0

\* SELECT 1 FROM hos_repasse_medico WHERE nr_repasse = :1, through
\* execute_scalar: 1 when a row matches, 0 (None) when none does.
execute_scalar(tab, nr) ==
    IF \E i \in DOMAIN tab : tab[i].nr_repasse = nr THEN 1 ELSE 0

\* Mutant of LinhaInserida: the INSERT writes another status literal.
LinhaInserida_pendente(row) ==
    [nr_repasse |-> row.nr_repasse, dt_lib_titulo |-> row.dt_lib_titulo,
     cd_estabelecimento |-> row.cd_estabelecimento, email |-> row.email,
     seq_terceiro |-> row.seq_terceiro, nr_titulo |-> row.nr_titulo,
     dt_lib_repasse |-> row.dt_lib_repasse, status |-> "Pendente", mensagem |-> "None"]

\* The row the INSERT statement writes: the source columns and status 'P'
\* (no mensagem).
LinhaInserida(row) ==
    [nr_repasse |-> row.nr_repasse, dt_lib_titulo |-> row.dt_lib_titulo,
     cd_estabelecimento |-> row.cd_estabelecimento, email |-> row.email,
     seq_terceiro |-> row.seq_terceiro, nr_titulo |-> row.nr_titulo,
     dt_lib_repasse |-> row.dt_lib_repasse, status |-> "P", mensagem |-> "None"]

\* execute_non_query for the INSERT: the statement is executed and committed,
\* or it raises ("erro") and the table is as before.
execute_non_query(tab, row, resultado) ==
    IF resultado = "ok" THEN Append(tab, LinhaInserida(row)) ELSE tab

\* The staging table outlives the process.  When the first process of a
\* behaviour starts it is empty, or it holds the record of transfer 1 as an
\* earlier deployment of the robot left it: sent, ignored or failed.
RegistroAnterior(status, mensagem) ==
    [LinhaInserida(LinhaFonte(1, 1, Estabelecimento, Perfis[1]))
        EXCEPT !.status = status, !.mensagem = mensagem]

TabelasIniciais ==
    { <<>>,
      << RegistroAnterior("E", "Enviado") >>,
      << RegistroAnterior("I", "Dados nao preenchidos") >>,
      << RegistroAnterior("False", "Falha no envio do email") >> }

\* Mutant of ConsultaPendentes: the WHERE clause is missing.
ConsultaPendentes_todos(tab) == tab

\* select * from hos_repasse_medico where status = 'P'.  The statement has no
\* ORDER BY; the rows are taken in the order of their insertion, as a scan of
\* a table from which nothing is deleted yields them.
ConsultaPendentes(tab) == SelectSeq(tab, LAMBDA r : r.status = "P")

\* ------------------------------------------------------------ exceptions
\* `except Exception`: what is still raised after the handler.  "nenhuma" is
\* no exception; a KeyboardInterrupt is not an Exception.
Capturado(exc) == IF exc = "Exception" THEN "nenhuma" ELSE exc

\* Mutant of ProximaFase: finalizar is called after the try block instead of
\* in a finally clause, an exception of a phase skips it.
ProximaFase_sem_finally(fase, exc) ==
    IF exc # "nenhuma" THEN "fim"
    ELSE CASE fase = "inicializar"        -> "bd_importar_contas"
           [] fase = "bd_importar_contas" -> "executar"
           [] fase = "executar"           -> "finalizar"

\* Mutant of ProximaFase: each phase is called in a try block of its own, an
\* exception of a phase does not skip the phases left.
ProximaFase_continua(fase, exc) ==
    CASE fase = "inicializar"        -> "bd_importar_contas"
      [] fase = "bd_importar_contas" -> "executar"
      [] fase = "executar"           -> "finalizar"

\* main's try/except/finally (main.py:23-32): the phase that follows `fase`
\* when it ended with exc.  An exception of a phase skips the phases left and
\* finalizar runs in any case.
ProximaFase(fase, exc) ==
    IF exc # "nenhuma" THEN "finalizar"
    ELSE CASE fase = "inicializar"        -> "bd_importar_contas"
           [] fase = "bd_importar_contas" -> "executar"
           [] fase = "executar"           -> "finalizar"

\* ------------------------------------------------------------------ logs
Entrada(sink, tipo, mensagem, registro, id) ==
    [sink |-> sink, tipo |-> tipo, mensagem |-> mensagem, registro |-> registro, id |-> id]

\* What call_procedure("ROBO_RPA.PR_REGISTRAR_LOG") raises.
PR_REGISTRAR_LOG(dbh) ==
    IF pr_registrar_log = "ok" /\ dbh = "aberta" THEN "nenhuma" ELSE "Exception"

\* Mutant of registrar_log_excecao: the procedure call is not inside a try.
registrar_log_excecao_sem_try(dbh) ==
    IF dbh # "None" THEN PR_REGISTRAR_LOG(dbh) ELSE "nenhuma"

\* The exception that leaves registrar_log: the procedure is called when
\* there is a DB handle, inside try/except Exception (180-185).
registrar_log_excecao(dbh) ==
    IF dbh # "None" THEN Capturado(PR_REGISTRAR_LOG(dbh)) ELSE "nenhuma"

\* The methods a raising registrar_log adds to those that raised: itself and
\* the method that called it outside a try block.
LevantouNoLog(exc, metodo) == IF exc # "nenhuma" THEN {"registrar_log", metodo} ELSE {}

\* registrar_log: in dev mode the message goes to the local logger; with a DB
\* handle the log procedure is called with p_id_execucao = controle_execucao
\* or 0, and a failure of that call is logged locally and swallowed.  The
\* value is the set of entries the call leaves.
registrar_log(tipo_log, mensagem, tipo_registro, dbh, ctl) ==
    (IF dev_mode THEN {Entrada("console", tipo_log, mensagem, tipo_registro, 0)} ELSE {})
    \cup
    (IF dbh # "None"
     THEN IF pr_registrar_log = "ok" /\ dbh = "aberta"
          THEN {Entrada("banco", tipo_log, mensagem, tipo_registro, ctl)}
          ELSE {Entrada("console", "ERROR", "Falha ao registrar log no banco", 0, 0)}
     ELSE {})

\* --------------------------------------------------- bd_importar_contas
\* f"Dados Importados com Sucesso: [{qtd_importados}/{len(rows)}]"
Resumo(qtd, total) ==
    "Dados Importados com Sucesso: [" \o ToString(qtd) \o "/" \o ToString(total) \o "]"

\* Mutant of ImportarLinha: the `continue` for a staged transfer number is
\* missing, the row is inserted whatever the existence query answered.
ImportarLinha_sem_continue(acc, row, resultado) ==
    IF resultado = "ok"
    THEN [tab |-> Append(acc.tab, LinhaInserida(row)), qtd |-> acc.qtd + 1, lg |-> acc.lg]
    ELSE acc

\* Mutant of ImportarLinha: qtd_importados is incremented before the insert
\* is executed, so a failed insert is counted.
ImportarLinha_conta_falha(acc, row, resultado) ==
    IF execute_scalar(acc.tab, row.nr_repasse) # 0
    THEN acc
    ELSE [tab |-> execute_non_query(acc.tab, row, resultado),
          qtd |-> acc.qtd + 1,
          lg  |-> acc.lg]

\* Mutant of ImportarLinha: a staged transfer number is updated from the
\* source row (an upsert) instead of being skipped.
ImportarLinha_atualiza(acc, row, resultado) ==
    IF execute_scalar(acc.tab, row.nr_repasse) # 0
    THEN [acc EXCEPT !.tab = [i \in DOMAIN acc.tab |->
                                IF acc.tab[i].nr_repasse = row.nr_repasse
                                THEN LinhaInserida(row) ELSE acc.tab[i]]]
    ELSE IF resultado = "ok"
         THEN [tab |-> Append(acc.tab, LinhaInserida(row)), qtd |-> acc.qtd + 1, lg |-> acc.lg]
         ELSE acc

\* One turn of the loop over the fetched rows (processamento.py:292-321):
\* skip the row when its transfer number is already staged, else insert it;
\* an insert that raises is logged and the loop goes on.
ImportarLinha(acc, row, resultado) ==
    IF execute_scalar(acc.tab, row.nr_repasse) # 0
    THEN acc
    ELSE IF resultado = "ok"
         THEN [tab |-> execute_non_query(acc.tab, row, resultado),
               qtd |-> acc.qtd + 1,
               lg  |-> acc.lg \cup registrar_log("INFO", "Inserido na tabela HOS_REPASSE_MEDICO",
                                                 row.nr_repasse, db, controle_execucao)]
         ELSE [tab |-> execute_non_query(acc.tab, row, resultado),
               qtd |-> acc.qtd,
               lg  |-> acc.lg \cup {Entrada("console", "ERROR", "Falha ao inserir repasse",
                                            row.nr_repasse, 0)}]

\* Mutant of ImportarLinhas: the insert is not inside a try block, the first
\* insert that raises ends the loop.
RECURSIVE ImportarLinhas_aborta(_, _, _, _)
ImportarLinhas_aborta(acc, rs, res, i) ==
    IF i > Len(rs) THEN acc
    ELSE IF execute_scalar(acc.tab, rs[i].nr_repasse) = 0 /\ res[i] = "erro"
         THEN ImportarLinha(acc, rs[i], res[i])
         ELSE ImportarLinhas_aborta(ImportarLinha(acc, rs[i], res[i]), rs, res, i + 1)

RECURSIVE ImportarLinhas(_, _, _, _)
ImportarLinhas(acc, rs, res, i) ==
    IF i > Len(rs) THEN acc
    ELSE ImportarLinhas(ImportarLinha(acc, rs[i], res[i]), rs, res, i + 1)

\* Mutant of ImportarAte: the existence check is inside the try block of the
\* insert, the row whose check raises is skipped and the loop goes on.
ImportarAte_isolada(acc, rs, res, k) ==
    ImportarLinhas(ImportarLinhas(acc, SubSeq(rs, 1, k - 1), res, 1),
                   SubSeq(rs, k + 1, Len(rs)), [i \in 1..(Len(rs) - k) |-> "ok"], 1)

\* The loop when execute_scalar raises for row k: the call (305) is outside
\* the try block of the insert (315-321), so rows 1..k-1 were handled, the
\* exception leaves the loop and no later row is handled.
ImportarAte(acc, rs, res, k) == ImportarLinhas(acc, SubSeq(rs, 1, k - 1), res, 1)

Resultados == {"ok", "erro"}

NumErros(res) == Cardinality({ i \in DOMAIN res : res[i] = "erro" })

\* bd_importar_contas as main calls it.  execute_query may raise, and the
\* exception leaves the method; so does an exception of the existence check
\* of row k, after the rows before it were handled; otherwise the loop runs
\* over the batch and the summary is logged.
bd_importar_contas ==
    /\ pc = "bd_importar_contas"
    /\ \/ /\ falhas < MaxFalhas
          /\ falhas' = falhas + 1
          /\ excecao' = "bd_importar_contas"
          /\ pc' = ProximaFase("bd_importar_contas", "Exception")
          /\ levantou' = levantou \cup {"bd_importar_contas"}
          /\ UNCHANGED <<hos_repasse_medico, log, rows, qtd_importados,
                         n_importacoes, antes, verificadas>>
       \/ \E rs \in ConsultaFonte(view) :
          \E k \in DOMAIN rs :
          \E res \in [1..(k - 1) -> Resultados] :
            LET ate == ImportarAte([tab |-> hos_repasse_medico, qtd |-> 0, lg |-> log],
                                   rs, res, k)
            IN  /\ falhas + NumErros(res) + 1 <= MaxFalhas
                /\ falhas' = falhas + NumErros(res) + 1
                /\ rows' = rs
                /\ antes' = hos_repasse_medico
                /\ verificadas' = k - 1
                /\ hos_repasse_medico' = ate.tab
                /\ log' = ate.lg
                /\ excecao' = "bd_importar_contas"
                /\ levantou' = levantou \cup {"execute_scalar", "bd_importar_contas"}
                /\ pc' = ProximaFase("bd_importar_contas", "Exception")
                /\ UNCHANGED <<qtd_importados, n_importacoes>>
       \/ \E rs \in ConsultaFonte(view) :
          \E res \in [1..Len(rs) -> Resultados] :
            LET fim == ImportarLinhas([tab |-> hos_repasse_medico, qtd |-> 0, lg |-> log],
                                      rs, res, 1)
                exc == registrar_log_excecao(db)
            IN  /\ falhas + NumErros(res) <= MaxFalhas
                /\ falhas' = falhas + NumErros(res)
                /\ rows' = rs
                /\ hos_repasse_medico' = fim.tab
                /\ qtd_importados' = fim.qtd
                /\ log' = fim.lg \cup registrar_log("INFO", Resumo(fim.qtd, Len(rs)),
                                                    0, db, controle_execucao)
                /\ n_importacoes' = n_importacoes + 1
                /\ antes' = hos_repasse_medico
                /\ verificadas' = Len(rs)
                /\ pc' = ProximaFase("bd_importar_contas", exc)
                /\ excecao' = IF exc # "nenhuma" THEN "bd_importar_contas" ELSE excecao
                /\ levantou' = levantou \cup LevantouNoLog(exc, "bd_importar_contas")
    /\ fases' = Append(fases, "bd_importar_contas")
    /\ UNCHANGED <<view, execucoes, dev_mode, pr_registrar_log, db, owns_db, navegador,
                   owns_browser, controle_execucao, url_tasy, usuario_tasy, nav_calls,
                   tabela, login, fechamentos, fornecido, finalizacao, saida, web,
                   cliente, repasse>>

\* ------------------------------------------------------ Processamento()
\* __init__: the engine keeps the handles it is given and owns the ones it is
\* not given (it will create them in inicializar).
Construir(dbh, browser) ==
    /\ db' = dbh
    /\ navegador' = browser
    /\ owns_db' = (dbh = "None")
    /\ owns_browser' = (browser = "None")
    /\ controle_execucao' = 0
    /\ fornecido' = [db |-> dbh # "None", navegador |-> browser # "None"]

\* ------------------------------------------------------------- main, 14-21
\* logger.warning("Falha ao conectar ao banco de dados") of main.
AvisoConexao == Entrada("console", "WARNING", "Falha ao conectar ao banco de dados", 0, 0)

\* main connects to the database (a failure is only a warning) and constructs
\* Processamento(config, db=db_client, browser=None): the engine owns what it
\* was not handed.
MainConectar ==
    /\ pc = "main"
    /\ \/ /\ Construir("aberta", "None")
          /\ UNCHANGED <<falhas, log>>
       \/ /\ falhas < MaxFalhas
          /\ falhas' = falhas + 1
          /\ log' = log \cup {AvisoConexao}
          /\ Construir("None", "None")
    /\ fases' = <<"conectar", "construir">>
    /\ pc' = "inicializar"
    /\ UNCHANGED <<view, hos_repasse_medico, execucoes, dev_mode, pr_registrar_log,
                   url_tasy, usuario_tasy, nav_calls, rows, qtd_importados,
                   tabela, login, excecao, fechamentos, finalizacao, saida, levantou, web,
                   n_importacoes, antes, verificadas, cliente, repasse>>

\* A caller other than main constructs the engine: with or without an open DB
\* handle, with or without an open browser.
ConstruirEngine ==
    /\ pc = "main"
    /\ \E dbh \in {"None", "aberta"}, browser \in {"None", "aberto"} :
         Construir(dbh, browser)
    /\ fases' = <<"construir">>
    /\ pc' = "inicializar"
    /\ UNCHANGED <<view, hos_repasse_medico, execucoes, falhas, dev_mode, pr_registrar_log,
                   url_tasy, usuario_tasy, log, nav_calls, rows, qtd_importados,
                   tabela, login, excecao, fechamentos, finalizacao, saida, levantou, web,
                   n_importacoes, antes, verificadas, cliente, repasse>>

\* ------------------------------------------------------------ inicializar
\* The browser is created, then the DB connection when none was handed in; a
\* failure of either is re-raised.  Then, inside one try block: the URL and
\* the credential are fetched (proc_obter_parametro answers None when its call
\* fails), the credential is split, and the run is registered.
\* Mutant of inicializar_excecao: the run registration is not inside a try.
inicializar_excecao_propaga(credencial, criar) ==
    IF credencial # "ok" \/ criar = "erro" THEN "Exception" ELSE "nenhuma"

\* The exception that leaves the last block of inicializar (130-168): the
\* split of a credential that is None and the call of
\* ROBO_RPA.PR_CRIAR_CONTROLE_EXECUCAO raise inside try/except Exception.
inicializar_excecao(credencial, criar) ==
    Capturado(IF credencial # "ok" \/ criar = "erro" THEN "Exception" ELSE "nenhuma")

\* What proc_obter_parametro may answer for CREDENCIAL_TASY: None (its call
\* failed), a text without ';', a text 'user;password'.
Credenciais == {"None", "sem_separador", "ok"}

\* Mutant of DeveRegistrar: the run is registered in a block of its own,
\* whatever became of the parameters.
DeveRegistrar_sempre(credencial) == TRUE

\* The create-run call (156) follows the fetches (133-137) and the split
\* (139-140) in one try block: split(";")[0] raises on None, split(";")[1] on
\* a text without ';', and control then leaves the block.  The call is
\* reached with a credential that splits, whatever the URL fetch answered.
DeveRegistrar(credencial) == credencial = "ok"

\* A database that main could not reach and that inicializar cannot reach
\* either is one failure of the environment, counted when main met it.
inicializar ==
    /\ pc = "inicializar"
    /\ \/ /\ navegador = "None"
          /\ falhas < MaxFalhas
          /\ falhas' = falhas + 1
          /\ excecao' = "inicializar"
          /\ levantou' = levantou \cup {"inicializar"}
          /\ pc' = ProximaFase("inicializar", "Exception")
          /\ UNCHANGED <<navegador, owns_browser, db, owns_db, url_tasy, usuario_tasy,
                         controle_execucao, log>>
       \/ /\ db = "None"
          /\ AvisoConexao \in log \/ falhas < MaxFalhas
          /\ falhas' = IF AvisoConexao \in log THEN falhas ELSE falhas + 1
          /\ navegador' = "aberto"
          /\ owns_browser' = (owns_browser \/ navegador = "None")
          /\ excecao' = "inicializar"
          /\ levantou' = levantou \cup {"inicializar"}
          /\ pc' = ProximaFase("inicializar", "Exception")
          /\ UNCHANGED <<db, owns_db, url_tasy, usuario_tasy, controle_execucao, log>>
       \/ \E url \in {"None", "url"}, credencial \in Credenciais, criar \in Resultados :
            LET n == (IF url = "None" THEN 1 ELSE 0) + (IF credencial # "ok" THEN 1 ELSE 0)
                     + (IF criar = "erro" THEN 1 ELSE 0)
                exc == inicializar_excecao(credencial, criar)
            IN
            /\ ~DeveRegistrar(credencial) => criar = "ok"
            /\ falhas + n <= MaxFalhas
            /\ falhas' = falhas + n
            /\ navegador' = "aberto"
            /\ owns_browser' = (owns_browser \/ navegador = "None")
            /\ db' = "aberta"
            /\ owns_db' = (owns_db \/ db = "None")
            /\ url_tasy' = url
            /\ usuario_tasy' = IF credencial = "ok" THEN "ok" ELSE "unset"
            /\ controle_execucao' =
                   IF DeveRegistrar(credencial) /\ criar = "ok" THEN execucoes ELSE 0
            /\ log' = log \cup
                   (IF credencial # "ok"
                    THEN {Entrada("console", "ERROR", "Erro ao registrar controle de execucao", 0, 0)}
                    ELSE IF criar # "ok"
                         THEN {Entrada("console", "ERROR", "Erro ao criar o controle de execucao", 0, 0)}
                         ELSE {})
            /\ pc' = ProximaFase("inicializar", exc)
            /\ excecao' = IF exc # "nenhuma" THEN "inicializar" ELSE excecao
            /\ levantou' = levantou \cup (IF exc # "nenhuma" THEN {"inicializar"} ELSE {})
    /\ fases' = Append(fases, "inicializar")
    /\ UNCHANGED <<view, hos_repasse_medico, execucoes, dev_mode, pr_registrar_log,
                   nav_calls, rows, qtd_importados, tabela, login, fechamentos,
                   fornecido, finalizacao, saida, web, n_importacoes, antes,
                   verificadas, cliente, repasse>>

\* ---------------------------------------------------------------- executar
ErpLogin == {"ok", "excecao", "sem_dialogo", "menu_erro"}

\* login_tasy: never raises.  erp is how the ERP answers: "ok", "excecao" (a
\* step up to the login click raises), "sem_dialogo" (the dialog after the
\* login click does not show), "menu_erro" (the menu search fails after the
\* login was logged as True).  Without a URL it raises before any browser
\* call; without the credential it raises after navegar.
login_tasy(erp) ==
    IF url_tasy # "url"
    THEN [ok |-> FALSE, nav |-> {},
          lg |-> registrar_log("ERROR", "Login Tasy: False", 0, db, controle_execucao)]
    ELSE IF usuario_tasy # "ok" \/ erp = "excecao"
    THEN [ok |-> FALSE, nav |-> {"navegar"},
          lg |-> registrar_log("ERROR", "Login Tasy: False", 0, db, controle_execucao)]
    ELSE IF erp = "sem_dialogo"
    THEN [ok |-> FALSE, nav |-> {"navegar", "login"},
          lg |-> registrar_log("INFO", "Login Tasy: False", 0, db, controle_execucao)]
    ELSE IF erp = "menu_erro"
    THEN [ok |-> FALSE, nav |-> {"navegar", "login", "menu"},
          lg |-> registrar_log("INFO", "Login Tasy: True", 0, db, controle_execucao)
                 \cup registrar_log("ERROR", "Login Tasy: False", 0, db, controle_execucao)]
    ELSE [ok |-> TRUE, nav |-> {"navegar", "login", "menu"},
          lg |-> registrar_log("INFO", "Login Tasy: True", 0, db, controle_execucao)]

\* The validation of the loop body (processamento.py:351): a record is
\* incomplete when dt_lib_titulo, nr_titulo, email or dt_lib_repasse is
\* missing.  dt_lib_titulo is never missing in a staged row: the import
\* query's WHERE clause compares it.
Incompleto(r) ==
    r.nr_titulo = "None" \/ r.email = "None" \/ r.dt_lib_repasse = "None"

\* Mutant of executar_apos_login: the loop over the selected records runs
\* after a successful login and marks the incomplete ones.
executar_apos_login_com_laco(tab, pendentes, logado) ==
    IF logado
    THEN [i \in DOMAIN tab |->
            IF tab[i].status = "P" /\ Incompleto(tab[i])
            THEN [tab[i] EXCEPT !.status = "I", !.mensagem = "Dados nao preenchidos"]
            ELSE tab[i]]
    ELSE tab

\* What executar does to the staging table once login_tasy has returned: the
\* statement after the call is `return` (processamento.py:338), so the loop
\* over the selected records (340-459) is never entered, whatever login_tasy
\* returned: the table is left as it is.
executar_apos_login(tab, pendentes, logado) == tab

\* executar: logs the start, selects the records with status 'P' (the early
\* return for an empty selection is inside a string literal, 333-335, and is
\* not executed), calls login_tasy, ignores its result and returns.
executar ==
    /\ pc = "executar"
    /\ LET inicio == log \cup registrar_log("INFO", "Inicio robo", 0, db, controle_execucao)
           exc0   == registrar_log_excecao(db)
       IN  IF exc0 # "nenhuma"
           THEN /\ excecao' = "executar"
                /\ levantou' = levantou \cup LevantouNoLog(exc0, "executar")
                /\ pc' = ProximaFase("executar", exc0)
                /\ UNCHANGED <<falhas, log, tabela, login, nav_calls, hos_repasse_medico>>
           ELSE \/ /\ falhas < MaxFalhas
                   /\ falhas' = falhas + 1
                   /\ log' = inicio
                   /\ excecao' = "executar"
                   /\ levantou' = levantou \cup {"executar"}
                   /\ pc' = ProximaFase("executar", "Exception")
                   /\ UNCHANGED <<tabela, login, nav_calls, hos_repasse_medico>>
                \/ \E erp \in ErpLogin :
                     LET pendentes == ConsultaPendentes(hos_repasse_medico)
                         r == login_tasy(erp)
                         n == IF erp = "ok" THEN 0 ELSE 1
                     IN  /\ falhas + n <= MaxFalhas
                         /\ falhas' = falhas + n
                         /\ tabela' = pendentes
                         /\ login' = IF r.ok THEN "True" ELSE "False"
                         /\ nav_calls' = nav_calls \cup r.nav
                         /\ log' = inicio \cup r.lg
                         /\ hos_repasse_medico' =
                                executar_apos_login(hos_repasse_medico, pendentes, r.ok)
                         /\ pc' = ProximaFase("executar", "nenhuma")
                         /\ UNCHANGED <<excecao, levantou>>
    /\ fases' = Append(fases, "executar")
    /\ UNCHANGED <<view, execucoes, dev_mode, pr_registrar_log, db, owns_db, navegador,
                   owns_browser, controle_execucao, url_tasy, usuario_tasy, rows,
                   qtd_importados, fechamentos, fornecido, finalizacao, saida, web,
                   n_importacoes, antes, verificadas, cliente, repasse>>

\* The process is interrupted while executar runs, after it logged its start.
\* SIGINT raises KeyboardInterrupt in main: `except Exception` does not catch
\* it, the finally clause runs finalizar, then it leaves main.  SIGKILL (and
\* SIGTERM, for which main installs no handler) ends the process at once.
Interromper ==
    /\ pc = "executar"
    /\ falhas < MaxFalhas
    /\ falhas' = falhas + 1
    /\ log' = log \cup registrar_log("INFO", "Inicio robo", 0, db, controle_execucao)
    /\ fases' = Append(fases, "executar")
    /\ \/ /\ saida' = "KeyboardInterrupt"
          /\ pc' = ProximaFase("executar", "KeyboardInterrupt")
       \/ /\ saida' = "SIGKILL"
          /\ pc' = "morto"
    /\ UNCHANGED <<view, hos_repasse_medico, execucoes, dev_mode, pr_registrar_log, db,
                   owns_db, navegador, owns_browser, controle_execucao, url_tasy,
                   usuario_tasy, nav_calls, rows, qtd_importados, tabela, login, excecao,
                   fechamentos, fornecido, finalizacao, levantou, web, n_importacoes, antes,
                   verificadas, cliente, repasse>>

\* ---------------------------------------------------------------- finalizar
\* Mutant of DeveFecharDb: the connection is closed whoever owns it.
DeveFecharDb_sempre(dbh, owns) == dbh # "None"

\* `if self.db: ... finally: if self._owns_db: self.db.close()`
DeveFecharDb(dbh, owns) == dbh # "None" /\ owns

\* Mutant of DeveFecharNavegador: the browser is closed inside the block that
\* `if self.db:` guards.
DeveFecharNavegador_com_db(browser, owns) == db # "None" /\ browser # "None" /\ owns

\* `if self.navegador and self._owns_browser:`
DeveFecharNavegador(browser, owns) == browser # "None" /\ owns

\* Mutant of DeveFinalizar: the finalize procedure is never called.
DeveFinalizar_nunca(dbh) == FALSE

\* `if self.db:` around the call of ROBO_RPA.PR_FINALIZAR_EXECUCAO.
DeveFinalizar(dbh) == dbh # "None"

\* Mutant of finalizar_excecao: the finalize call is not inside a try.
finalizar_excecao_propaga(fin) == IF fin = "erro" THEN "Exception" ELSE "nenhuma"

\* The exception that leaves finalizar when the finalize call ended with fin:
\* the call is inside try/except Exception (466-472).
finalizar_excecao(fin) == Capturado(IF fin = "erro" THEN "Exception" ELSE "nenhuma")

\* What leaves main after the finally clause: the exception of finalizar, or
\* the exception that was on its way through the finally clause, or nothing.
main_saida(pendente, exc) ==
    IF exc # "nenhuma" THEN exc
    ELSE IF pendente # "nenhuma" THEN pendente ELSE "normal"

\* Logs the end, calls the finalize procedure when there is a DB handle, then
\* closes the connection and the browser it owns.  The close of the connection
\* is in the finally clause of the block of the finalize call; the browser is
\* closed after that block.  An exception of close() or fechar_navegador() is
\* caught and logged: the handle counts as closed, the call was made.
finalizar ==
    /\ pc = "finalizar"
    /\ LET exc0 == registrar_log_excecao(db)
       IN  IF exc0 # "nenhuma"
           THEN /\ levantou' = levantou \cup LevantouNoLog(exc0, "finalizar")
                /\ saida' = main_saida(saida, exc0)
                /\ UNCHANGED <<log, db, navegador, fechamentos, finalizacao, falhas>>
           ELSE \E fin \in Resultados :
                   LET chama == DeveFinalizar(db)
                       exc   == IF chama THEN finalizar_excecao(fin) ELSE "nenhuma"
                       fdb   == DeveFecharDb(db, owns_db)
                       fnav  == exc = "nenhuma" /\ DeveFecharNavegador(navegador, owns_browser)
                   IN  /\ ~chama => fin = "ok"
                       /\ fin = "erro" => falhas < MaxFalhas
                       /\ falhas' = IF fin = "erro" THEN falhas + 1 ELSE falhas
                       /\ finalizacao' = IF chama THEN fin ELSE "nao"
                       /\ log' = log \cup registrar_log("INFO", "Fim Robo", 0, db, controle_execucao)
                       /\ db' = IF fdb THEN "fechada" ELSE db
                       /\ navegador' = IF fnav THEN "fechado" ELSE navegador
                       /\ fechamentos' =
                              [db        |-> fechamentos.db + (IF fdb THEN 1 ELSE 0),
                               navegador |-> fechamentos.navegador + (IF fnav THEN 1 ELSE 0)]
                       /\ levantou' = levantou \cup (IF exc # "nenhuma" THEN {"finalizar"} ELSE {})
                       /\ saida' = main_saida(saida, exc)
    /\ fases' = Append(fases, "finalizar")
    /\ pc' = "fim"
    /\ UNCHANGED <<view, hos_repasse_medico, execucoes, dev_mode, pr_registrar_log,
                   owns_db, owns_browser, controle_execucao, url_tasy, usuario_tasy,
                   nav_calls, rows, qtd_importados, tabela, login, excecao,
                   fornecido, web, n_importacoes, antes, verificadas, cliente, repasse>>

\* ------------------------------------------------------------ environment
\* The process is started again: a fresh Processamento, the same database.
NovaExecucao ==
    /\ pc \in {"fim", "morto"}
    /\ execucoes < MaxExecucoes
    /\ execucoes' = execucoes + 1
    /\ pc' = "main"
    /\ \/ /\ pr_registrar_log' = "ok"
          /\ UNCHANGED falhas
       \/ /\ falhas < MaxFalhas
          /\ pr_registrar_log' = "erro"
          /\ falhas' = falhas + 1
    /\ db' = "None"
    /\ owns_db' = TRUE
    /\ navegador' = "None"
    /\ owns_browser' = TRUE
    /\ controle_execucao' = 0
    /\ url_tasy' = "unset"
    /\ usuario_tasy' = "unset"
    /\ log' = {}
    /\ nav_calls' = {}
    /\ rows' = <<>>
    /\ qtd_importados' = 0
    /\ tabela' = <<>>
    /\ login' = "nao"
    /\ excecao' = "nenhuma"
    /\ fechamentos' = [db |-> 0, navegador |-> 0]
    /\ fornecido' = [db |-> FALSE, navegador |-> FALSE]
    /\ finalizacao' = "nao"
    /\ saida' = "nenhuma"
    /\ fases' = <<>>
    /\ levantou' = {}
    /\ verificadas' = 0
    /\ UNCHANGED <<view, hos_repasse_medico, dev_mode, web, n_importacoes, antes,
                   cliente, repasse>>

\* ---------------------------------------------------------- WebController
\* The page under the WebController: for each element the time at which it is
\* present in the DOM.  A time beyond MaxTempo is beyond every timeout a call
\* is made with.
Elementos == {"a", "b"}
Tempos == 0..(MaxTempo + 1)
Timeouts == 1..MaxTempo

\* WebDriverWait(driver, timeout).until(presence_of_element_located(...)):
\* the element when it is present within the timeout, else TimeoutException.
WebDriverWait_until(dom, el, timeout) ==
    IF dom[el] <= timeout
    THEN [retorno |-> el, excecao |-> "nenhuma", efeito |-> "nenhum"]
    ELSE [retorno |-> "None", excecao |-> "TimeoutException", efeito |-> "nenhum"]

\* _encontrar_elemento (comandos.py:525-536): the TimeoutException of the wait
\* is caught, an error is logged and False is returned.
encontrar_elemento(dom, el, timeout) ==
    LET w == WebDriverWait_until(dom, el, timeout)
    IN  IF w.excecao = "TimeoutException"
        THEN [retorno |-> "False", excecao |-> "nenhuma", efeito |-> "nenhum"]
        ELSE w

\* verificar_existencia_elemento (371-380): True unless _encontrar_elemento
\* raises TimeoutException.
verificar_existencia_elemento(dom, el, timeout) ==
    LET r == encontrar_elemento(dom, el, timeout)
    IN  IF r.excecao = "TimeoutException"
        THEN [retorno |-> "False", excecao |-> "nenhuma", efeito |-> "nenhum"]
        ELSE IF r.excecao # "nenhuma"
             THEN r
             ELSE [retorno |-> "True", excecao |-> "nenhuma", efeito |-> "nenhum"]

\* click_elemento (277-307): clicks (through the driver's script when js) and
\* returns True when _encontrar_elemento returned an element, else returns
\* False.
click_elemento(dom, el, timeout, js) ==
    LET r == encontrar_elemento(dom, el, timeout)
    IN  IF r.excecao # "nenhuma" THEN r
        ELSE IF r.retorno # "False"
             THEN [retorno |-> "True", excecao |-> "nenhuma",
                   efeito |-> IF js THEN "click_js" ELSE "click"]
             ELSE [retorno |-> "False", excecao |-> "nenhuma", efeito |-> "nenhum"]

\* definir_valor (309-333): el.clear() and el.send_keys(texto) on what
\* _encontrar_elemento returned; on False that is an AttributeError.
definir_valor(dom, el, timeout) ==
    LET r == encontrar_elemento(dom, el, timeout)
    IN  IF r.excecao # "nenhuma" THEN r
        ELSE IF r.retorno = "False"
             THEN [retorno |-> "None", excecao |-> "AttributeError", efeito |-> "nenhum"]
             ELSE [retorno |-> "None", excecao |-> "nenhuma", efeito |-> "texto"]

\* A call of a method on the page web.dom and its outcome.
Chamada(metodo, el, timeout, r) ==
    [dom |-> web.dom, chamada |-> metodo, alvo |-> el, timeout |-> timeout,
     retorno |-> r.retorno, excecao |-> r.excecao, efeito |-> r.efeito]

SemChamada(dom) ==
    [dom |-> dom, chamada |-> "nenhuma", alvo |-> "a", timeout |-> 1,
     retorno |-> "None", excecao |-> "nenhuma", efeito |-> "nenhum"]

\* The page on which every element is present at once.
WebParado == SemChamada([e \in Elementos |-> 0])

\* What a call on the WebController leaves alone.
QuadroWeb ==
    UNCHANGED <<view, hos_repasse_medico, pc, execucoes, falhas, dev_mode, pr_registrar_log,
                db, owns_db, navegador, owns_browser, controle_execucao, url_tasy,
                usuario_tasy, log, nav_calls, rows, qtd_importados, tabela, login,
                excecao, fechamentos, fornecido, finalizacao, saida, fases, levantou,
                n_importacoes, antes, verificadas, cliente, repasse>>

ChamarEncontrarElemento ==
    /\ web.chamada = "nenhuma"
    /\ \E el \in Elementos, t \in Timeouts :
         web' = Chamada("_encontrar_elemento", el, t, encontrar_elemento(web.dom, el, t))
    /\ QuadroWeb

ChamarVerificarExistencia ==
    /\ web.chamada = "nenhuma"
    /\ \E el \in Elementos, t \in Timeouts :
         web' = Chamada("verificar_existencia_elemento", el, t,
                        verificar_existencia_elemento(web.dom, el, t))
    /\ QuadroWeb

ChamarClickElemento ==
    /\ web.chamada = "nenhuma"
    /\ \E el \in Elementos, t \in Timeouts, js \in BOOLEAN :
         web' = Chamada("click_elemento", el, t, click_elemento(web.dom, el, t, js))
    /\ QuadroWeb

ChamarDefinirValor ==
    /\ web.chamada = "nenhuma"
    /\ \E el \in Elementos, t \in Timeouts :
         web' = Chamada("definir_valor", el, t, definir_valor(web.dom, el, t))
    /\ QuadroWeb

\* ----------------------------------------------------------------- DBClient
\* What a test of a collaborator alone leaves alone: the program.
QuadroPrograma ==
    UNCHANGED <<view, hos_repasse_medico, pc, execucoes, falhas, dev_mode, pr_registrar_log,
                db, owns_db, navegador, owns_browser, controle_execucao, url_tasy,
                usuario_tasy, log, nav_calls, rows, qtd_importados, tabela, login,
                excecao, fechamentos, fornecido, finalizacao, saida, fases, levantou,
                n_importacoes, antes, verificadas>>

\* What oracledb.connect may raise in thin mode: a message with one of the
\* texts the constructor looks for, or another error.
ErrosThin ==
    {"init_oracle_client() must be called first", "DPY-2021", "DPY-3015",
     "password verifier", "ORA-12541", "DPY-6005"}

\* Mutant of ErroThinConhecido: every error of the thin connection is taken
\* for one that the thick mode may cure.
ErroThinConhecido_qualquer(msg) == TRUE

\* The test on str(e) (601-606).
ErroThinConhecido(msg) ==
    \/ msg = "init_oracle_client() must be called first"
    \/ msg = "DPY-2021"
    \/ msg = "DPY-3015"
    \/ msg = "password verifier"

\* common_paths (616-620), in the order in which they are looked at.
CaminhosComuns == <<"instantclient", "instantclient_23_9", "instantclient_19_8">>

\* lib_dir (608-625): ORACLE_INSTANT_CLIENT_DIR when it is set, else the first
\* of the common paths that exists, else None.
LibDir(env_dir, existentes) ==
    IF env_dir # "" THEN env_dir
    ELSE IF \E i \in DOMAIN CaminhosComuns : CaminhosComuns[i] \in existentes
         THEN CaminhosComuns[CHOOSE i \in DOMAIN CaminhosComuns :
                                /\ CaminhosComuns[i] \in existentes
                                /\ \A j \in 1..(i - 1) : CaminhosComuns[j] \notin existentes]
         ELSE "None"

\* _try_init_instant_client (579-589): False without a directory, else whether
\* oracledb.init_oracle_client did not raise.
try_init_instant_client(lib_dir, init) == lib_dir # "None" /\ init = "ok"

\* The environments of a construction: whether the driver is installed, the
\* configured port, what the thin connection answers, the environment
\* variable, the common paths that exist, what init_oracle_client and the
\* connection after it answer.
AmbientesDoCliente ==
    [oracledb : BOOLEAN, porta : {"", "1521", "x"}, thin : {"ok"} \cup ErrosThin,
     env_dir : {"", "dir_env"},
     existentes : SUBSET { CaminhosComuns[i] : i \in DOMAIN CaminhosComuns },
     init : Resultados, thick : {"ok", "ORA-01017"}]

ResultadoDoCliente(conn, exc, tentativas, lib_dir, init_chamado) ==
    [conn |-> conn, excecao |-> exc, tentativas |-> tentativas, lib_dir |-> lib_dir,
     init_chamado |-> init_chamado]

\* DBClient.__init__ (568-644): self.conn or the exception that leaves the
\* constructor, the connections attempted in order, the directory chosen and
\* whether init_oracle_client was called with it.
DBClient_init(amb) ==
    IF ~amb.oracledb
    THEN ResultadoDoCliente("None", "RuntimeError", <<>>, "None", FALSE)
    ELSE IF amb.porta = "x"
    THEN ResultadoDoCliente("None", "ValueError", <<>>, "None", FALSE)
    ELSE IF amb.thin = "ok"
    THEN ResultadoDoCliente("thin", "nenhuma", <<"thin">>, "None", FALSE)
    ELSE IF ErroThinConhecido(amb.thin)
    THEN LET lib_dir == LibDir(amb.env_dir, amb.existentes)
         IN  IF lib_dir # "None" /\ try_init_instant_client(lib_dir, amb.init)
             THEN IF amb.thick = "ok"
                  THEN ResultadoDoCliente("thick", "nenhuma", <<"thin", "thick">>, lib_dir, TRUE)
                  ELSE ResultadoDoCliente("None", amb.thick, <<"thin", "thick">>, lib_dir, TRUE)
             ELSE ResultadoDoCliente("None", amb.thin, <<"thin">>, lib_dir, lib_dir # "None")
    ELSE ResultadoDoCliente("None", amb.thin, <<"thin">>, "None", FALSE)

SemCliente(amb) ==
    [amb |-> amb, chamado |-> FALSE,
     resultado |-> ResultadoDoCliente("None", "nenhuma", <<>>, "None", FALSE)]

\* No construction is under test.
ClienteParado ==
    SemCliente([oracledb |-> TRUE, porta |-> "1521", thin |-> "ok", env_dir |-> "",
                existentes |-> {}, init |-> "ok", thick |-> "ok"])

\* DBClient(config) is called in the environment cliente.amb.
ConstruirDBClient ==
    /\ ~cliente.chamado
    /\ cliente' = [cliente EXCEPT !.chamado = TRUE, !.resultado = DBClient_init(cliente.amb)]
    /\ QuadroPrograma
    /\ UNCHANGED <<web, repasse>>

\* ------------------------------------- executar, the body of its loop (340-459)
\* The workflow of one selected record as the loop body has it.  executar as
\* it stands returns before the loop (see executar_apos_login), so main does
\* not reach these steps: they are the code of the workflow taken alone.
\* The elements the workflow looks for: the NR_SEQ_TERCEIRO input of the
\* filter, the grid row of the third party, the line of the transfer number,
\* the 'Enviar E-mail' action, the DS_EMAIL_DESTINO input and the 'Enviar'
\* button of the dialog, the text of the 'Operacao abortada' dialog.
ElementosDoFluxo ==
    {"campo_terceiro", "linha_grade", "linha_repasse", "enviar_email",
     "email_destino", "botao_enviar", "texto_abortada"}

\* The pages the ERP may show for a record: the elements that are there
\* within the timeout of the call that looks for them.  The dialog 'Email
\* destino' is opened by the 'Enviar E-mail' action: its input and its button
\* are there only when that action's element is.
Paginas ==
    { p \in SUBSET ElementosDoFluxo :
        (p \cap {"email_destino", "botao_enviar"}) # {} => "enviar_email" \in p }

\* The page as the WebController's calls see it.
Dom(p) == [e \in ElementosDoFluxo |-> IF e \in p THEN 0 ELSE MaxTempo + 1]

\* aguardar_elemento_visivel (345-369): True, or False on TimeoutException.
aguardar_elemento_visivel(dom, el, timeout) ==
    [retorno |-> IF dom[el] <= timeout THEN "True" ELSE "False",
     excecao |-> "nenhuma", efeito |-> "nenhum"]

\* obter_texto (335-338): el.text of what _encontrar_elemento returned; on
\* False that is an AttributeError.
obter_texto(dom, el, timeout) ==
    LET r == encontrar_elemento(dom, el, timeout)
    IN  IF r.excecao # "nenhuma" THEN r
        ELSE IF r.retorno = "False"
             THEN [retorno |-> "None", excecao |-> "AttributeError", efeito |-> "nenhum"]
             ELSE [retorno |-> "texto", excecao |-> "nenhuma", efeito |-> "nenhum"]

\* The pending records the workflow is given: one of each profile.
RegistrosPendentes ==
    { LinhaInserida(LinhaFonte(1, 1, Estabelecimento, Perfis[i])) : i \in DOMAIN Perfis }

\* What one read of the name field gives (380-384): the name, the empty
\* string, or None when obter_texto raised.  The name of a third party the
\* ERP does not know never shows.
Leituras(r) ==
    IF r.seq_terceiro \in TerceirosErp THEN {"nome", "vazio", "excecao"}
    ELSE {"vazio", "excecao"}

Lido(leitura) ==
    CASE leitura = "nome"    -> "nome"
      [] leitura = "vazio"   -> ""
      [] leitura = "excecao" -> "None"

\* `if seq_encontrado:`
Truthy(seq) == seq \notin {"None", ""}

\* Mutant of PollContinua: the `break` at the first name is missing.
PollContinua_sem_break(tentativa, seq) == tentativa < MaxTentativas

\* for tentativa in range(1, 11): ... if seq_encontrado: break (378-388):
\* another turn follows `tentativa` turns unless that was the tenth or the
\* name was read.
PollContinua(tentativa, seq) == tentativa < MaxTentativas /\ ~Truthy(seq)

RegistroInicial(r, p) ==
    [r |-> r, pagina |-> p, fase |-> "inicio", tentativa |-> 0, esperas |-> 0,
     seq_encontrado |-> "None", leitura |-> "nenhuma", passos |-> <<>>,
     envios |-> 0, passagens |-> 1, erro |-> "nenhum"]

\* No record is being worked on.
RegistroParado ==
    [RegistroInicial(LinhaInserida(LinhaFonte(1, 1, Estabelecimento, Perfis[1])), {})
        EXCEPT !.fase = "parado"]

\* The UPDATE of status and mensagem inside the try block of the record: an
\* exception of execute_non_query is caught at the record boundary (456-459),
\* the record keeps its status.
Atualizar(reg, status, mensagem, res) ==
    IF res = "ok"
    THEN [reg EXCEPT !.r.status = status, !.r.mensagem = mensagem, !.fase = "fim"]
    ELSE [reg EXCEPT !.erro = "DatabaseError", !.fase = "fim"]

\* A click_elemento call whose result the loop body does not look at: the
\* step is done when the element was there, and the body goes on either way.
Clicar(reg, el, passo) ==
    IF click_elemento(Dom(reg.pagina), el, 1, FALSE).retorno = "True"
    THEN [reg EXCEPT !.passos = Append(@, passo)]
    ELSE reg

\* 351-375: an incomplete record is marked 'I' (this UPDATE is outside the try
\* block, its exception leaves executar); else the filter is opened and the
\* third party's number is typed into it.
AbrirFiltro ==
    /\ repasse.fase = "inicio"
    /\ \E res \in Resultados :
         repasse' =
           IF Incompleto(repasse.r)
           THEN IF res = "ok"
                THEN Atualizar(repasse, "I", "Dados nao preenchidos", res)
                ELSE [repasse EXCEPT !.erro = "DatabaseError", !.fase = "levantou"]
           ELSE LET d == definir_valor(Dom(repasse.pagina), "campo_terceiro", 1)
                IN  IF d.excecao # "nenhuma"
                    THEN [repasse EXCEPT !.erro = d.excecao, !.fase = "fim"]
                    ELSE [repasse EXCEPT !.fase = "poll"]
    /\ QuadroPrograma
    /\ UNCHANGED <<web, cliente>>

\* One turn of the poll (378-388): the delay, then the read.
TentativaDeLeitura ==
    /\ repasse.fase = "poll"
    /\ PollContinua(repasse.tentativa, repasse.seq_encontrado)
    /\ \E l \in Leituras(repasse.r) :
         repasse' = [repasse EXCEPT !.esperas = @ + 1, !.tentativa = @ + 1,
                                      !.leitura = l, !.seq_encontrado = Lido(l)]
    /\ QuadroPrograma
    /\ UNCHANGED <<web, cliente>>

\* After the poll (390-410): without a name the record is marked 'I'; with it
\* the filter is applied, and the record is marked 'I' when the grid row of
\* the third party does not show.
FiltrarELocalizar ==
    /\ repasse.fase = "poll"
    /\ ~PollContinua(repasse.tentativa, repasse.seq_encontrado)
    /\ \E res \in Resultados :
         repasse' =
           IF ~Truthy(repasse.seq_encontrado)
           THEN Atualizar(repasse, "I", "Nao encontrou a sequencia", res)
           ELSE LET reg == [repasse EXCEPT !.passos = Append(@, "nome")]
                    found == aguardar_elemento_visivel(Dom(repasse.pagina),
                                                       "linha_grade", 1).retorno = "True"
                IN  IF ~found
                    THEN Atualizar(reg, "I", "Nao encontrou a sequencia", res)
                    ELSE [reg EXCEPT !.fase = "enviar"]
    /\ QuadroPrograma
    /\ UNCHANGED <<web, cliente>>

\* 412-454: the grid row is opened, the line of the transfer number selected,
\* the send-email action triggered (three clicks whose results are not looked
\* at), the destination typed in (an AttributeError when the input is not
\* there), the form submitted (a click whose result is not looked at), and
\* the status written: 'False' when the abort dialog shows, else 'E'.  The
\* abort dialog shows when the form was submitted to an address the ERP
\* rejects.
EnviarEmail ==
    /\ repasse.fase = "enviar"
    /\ \E res \in Resultados :
         LET g1 == Clicar(repasse, "linha_grade", "abrir_linha")
             g2 == Clicar(g1, "linha_repasse", "selecionar_repasse")
             g3 == Clicar(g2, "enviar_email", "enviar_email")
             d  == definir_valor(Dom(repasse.pagina), "email_destino", 1)
             g4 == [g3 EXCEPT !.passos = Append(@, "email_destino")]
             g5 == Clicar(g4, "botao_enviar", "submit")
             enviou  == Len(g5.passos) > Len(g4.passos)
             g6 == [g5 EXCEPT !.envios = @ + (IF enviou THEN 1 ELSE 0)]
             aborted == enviou /\ ErpAborta(Destino(repasse.r))
             t  == obter_texto(Dom(repasse.pagina), "texto_abortada", 1)
         IN  repasse' =
               IF d.excecao # "nenhuma"
               THEN [g3 EXCEPT !.erro = d.excecao, !.fase = "fim"]
               ELSE IF aborted
                    THEN IF t.excecao # "nenhuma"
                         THEN [g6 EXCEPT !.erro = t.excecao, !.fase = "fim"]
                         ELSE Atualizar(g6, "False", "Falha no envio do email", res)
                    ELSE Atualizar(g6, "E", "Enviado", res)
    /\ QuadroPrograma
    /\ UNCHANGED <<web, cliente>>

\* A later run selects the record again when it still has status 'P'
\* (331-332) and works on it from the start.
ProximaPassagem ==
    /\ repasse.fase \in {"fim", "levantou"}
    /\ repasse.r.status = "P"
    /\ repasse.passagens < MaxPassagens
    /\ repasse' = [RegistroInicial(repasse.r, repasse.pagina)
                      EXCEPT !.envios = repasse.envios,
                             !.passagens = repasse.passagens + 1]
    /\ QuadroPrograma
    /\ UNCHANGED <<web, cliente>>

\* ------------------------------------------------------------ specification
\* The first process of a behaviour is about to start.
InitProcesso ==
    /\ hos_repasse_medico \in TabelasIniciais
    /\ pc = "main"
    /\ execucoes = 1
    /\ dev_mode \in BOOLEAN
    /\ \E r \in Resultados :
         /\ pr_registrar_log = r
         /\ falhas = IF r = "erro" THEN 1 ELSE 0
    /\ db = "None"
    /\ owns_db = TRUE
    /\ navegador = "None"
    /\ owns_browser = TRUE
    /\ controle_execucao = 0
    /\ url_tasy = "unset"
    /\ usuario_tasy = "unset"
    /\ log = {}
    /\ nav_calls = {}
    /\ rows = <<>>
    /\ qtd_importados = 0
    /\ tabela = <<>>
    /\ login = "nao"
    /\ excecao = "nenhuma"
    /\ fechamentos = [db |-> 0, navegador |-> 0]
    /\ fornecido = [db |-> FALSE, navegador |-> FALSE]
    /\ finalizacao = "nao"
    /\ saida = "nenhuma"
    /\ fases = <<>>
    /\ levantou = {}
    /\ n_importacoes = 0
    /\ antes = hos_repasse_medico
    /\ verificadas = 0

InitPrograma == view \in Views /\ InitProcesso

\* No collaborator is under test.
SemTeste == web = WebParado /\ cliente = ClienteParado /\ repasse = RegistroParado

\* The program starts.
Init == InitPrograma /\ SemTeste

Next ==
    \/ MainConectar
    \/ inicializar
    \/ bd_importar_contas
    \/ executar
    \/ Interromper
    \/ finalizar
    \/ NovaExecucao

Spec == Init /\ [][Next]_vars

\* The engine under a caller other than main, which constructs it with the
\* handles of its choice and then calls the phases as main does.
InitEngine == Init /\ Cardinality(view) <= MaxViewEngine

NextEngine ==
    \/ ConstruirEngine
    \/ inicializar
    \/ bd_importar_contas
    \/ executar
    \/ finalizar
    \/ NovaExecucao

SpecEngine == InitEngine /\ [][NextEngine]_vars

\* The WebController alone: a page, and one call of one of its methods.  The
\* program does not run.
InitWeb ==
    /\ InitPrograma
    /\ view = {} /\ hos_repasse_medico = <<>> /\ ~dev_mode /\ pr_registrar_log = "ok"
    /\ web \in { SemChamada(dom) : dom \in [Elementos -> Tempos] }
    /\ cliente = ClienteParado /\ repasse = RegistroParado

NextWeb ==
    \/ ChamarEncontrarElemento
    \/ ChamarVerificarExistencia
    \/ ChamarClickElemento
    \/ ChamarDefinirValor

SpecWeb == InitWeb /\ [][NextWeb]_vars

\* The program while it is not running: an empty database, no process.
ProgramaParado ==
    /\ InitPrograma
    /\ view = {} /\ hos_repasse_medico = <<>> /\ pr_registrar_log = "ok"

\* The DBClient alone: an environment, and one construction in it.
InitCliente ==
    /\ ProgramaParado /\ ~dev_mode
    /\ web = WebParado /\ repasse = RegistroParado
    /\ cliente \in { SemCliente(amb) : amb \in AmbientesDoCliente }

NextCliente == ConstruirDBClient

SpecCliente == InitCliente /\ [][NextCliente]_vars

\* The per-record workflow alone: a pending record, the page the ERP shows
\* for it, and the runs that work on it.
InitRegistro ==
    /\ ProgramaParado
    /\ web = WebParado /\ cliente = ClienteParado
    /\ repasse \in { RegistroInicial(r, p) : r \in RegistrosPendentes, p \in Paginas }

NextRegistro ==
    \/ AbrirFiltro
    \/ TentativaDeLeitura
    \/ FiltrarELocalizar
    \/ EnviarEmail
    \/ ProximaPassagem

SpecRegistro == InitRegistro /\ [][NextRegistro]_vars

\* The loop body runs in one thread: the delay returns and every browser call
\* returns within its timeout, so a step that can be taken is taken.
SpecRegistroJusto ==
    /\ SpecRegistro
    /\ WF_vars(AbrirFiltro) /\ WF_vars(TentativaDeLeitura)
    /\ WF_vars(FiltrarELocalizar) /\ WF_vars(EnviarEmail)

\* Main against a view that holds more eligible rows than the row cap, the
\* row beyond the cap released later than the rows within it and with a
\* transfer number of its own.
LinhaTardia == LinhaFonte(3, 3, Estabelecimento, Perfis[1])

ViewsAcimaDoLimite ==
    { w \cup {LinhaTardia} :
        w \in { x \in SUBSET { r \in LinhasFonte : Elegivel(r) /\ r.nr_repasse # 3 } :
                  Cardinality(x) = FetchFirst } }

InitAcimaDoLimite == view \in ViewsAcimaDoLimite /\ InitProcesso /\ SemTeste

SpecAcimaDoLimite == InitAcimaDoLimite /\ [][Next]_vars

\* ================================================================ claims
\* The state right after a bd_importar_contas call that ran its loop.
AposImportar == pc = "executar"

\* The state right after an executar call that returned normally.
AposExecutar == pc = "finalizar" /\ excecao = "nenhuma" /\ login # "nao"

Staged(tab, nr) == \E i \in DOMAIN tab : tab[i].nr_repasse = nr

C2_NrRepasseUnico ==
    \A i, j \in DOMAIN hos_repasse_medico :
        i # j => hos_repasse_medico[i].nr_repasse # hos_repasse_medico[j].nr_repasse

\* A second import whose batch lists one transfer number twice, that number
\* being staged.
C2_Witness ==
    /\ AposImportar /\ n_importacoes >= 2
    /\ \E i, j \in DOMAIN rows :
         /\ i # j
         /\ rows[i].nr_repasse = rows[j].nr_repasse
         /\ Staged(hos_repasse_medico, rows[i].nr_repasse)

\* ---- the records as the ERP meets them
\* Every row of the staging table with transfer number nr has status st.
StatusAtual(nr, st) ==
    \A j \in DOMAIN hos_repasse_medico :
        hos_repasse_medico[j].nr_repasse = nr => hos_repasse_medico[j].status = st

\* The per-record workflow ran for r: it wrote a status, or it logged its
\* error for the record.
Processado(r) ==
    \/ ~StatusAtual(r.nr_repasse, "P")
    \/ \E e \in log : e.mensagem = "Erro ao processar repasse" /\ e.registro = r.nr_repasse

\* ---- C3
\* C3: when executar has returned after a successful login, every record it
\* selected as pending with a required field missing has status 'I'.
C3_IncompletoViraI ==
    (AposExecutar /\ login = "True")
        => \A i \in DOMAIN tabela :
               Incompleto(tabela[i]) => StatusAtual(tabela[i].nr_repasse, "I")

\* ---- C4
\* C4: when executar has returned after a successful login, every complete
\* pending record whose third party the ERP does not resolve has status 'I'.
C4_NaoEncontradoViraI ==
    (AposExecutar /\ login = "True")
        => \A i \in DOMAIN tabela :
               (~Incompleto(tabela[i]) /\ tabela[i].seq_terceiro \notin TerceirosErp)
                   => StatusAtual(tabela[i].nr_repasse, "I")

\* ---- C5
\* C5: when executar has returned after a successful login, every complete
\* pending record of a known third party whose submit the ERP answers with the
\* abort dialog has the failure marker 'False' as its status.
C5_AbortadoViraFalse ==
    (AposExecutar /\ login = "True")
        => \A i \in DOMAIN tabela :
               (/\ ~Incompleto(tabela[i])
                /\ tabela[i].seq_terceiro \in TerceirosErp
                /\ ErpAborta(tabela[i].email))
                   => StatusAtual(tabela[i].nr_repasse, "False")

\* ---- C6
\* C6: when executar has returned after a successful login, every complete
\* pending record of a known third party whose submit the ERP accepts without
\* an abort dialog has status 'E'.
C6_EnviadoViraE ==
    (AposExecutar /\ login = "True")
        => \A i \in DOMAIN tabela :
               (/\ ~Incompleto(tabela[i])
                /\ tabela[i].seq_terceiro \in TerceirosErp
                /\ ~ErpAborta(tabela[i].email))
                   => StatusAtual(tabela[i].nr_repasse, "E")

\* ---- C7
\* C7: whatever happened to a pending record (an exception included), the
\* pending records selected after it are processed in the same executar call.
C7_LoteIsolado ==
    (AposExecutar /\ login = "True")
        => \A i, j \in DOMAIN tabela : i < j => Processado(tabela[j])

\* ---- C8
\* C8: after a successful login, executar has run the per-record workflow for
\* every record that had status 'P' when it was called.
C8_TodosProcessados ==
    (AposExecutar /\ login = "True")
        => \A i \in DOMAIN tabela : Processado(tabela[i])

\* ---- C9
\* C9: when login_tasy fails, executar does not return normally: main catches
\* its exception.
C9_LoginFalhoPropaga ==
    (pc \in {"finalizar", "fim"} /\ login = "False") => excecao = "executar"

\* ---- C10
\* C10: when executar has returned and no record has status 'P', login_tasy
\* was not called and the browser was not used.
C10_SemPendentesSemLogin ==
    (pc = "finalizar" /\ excecao = "nenhuma" /\ ConsultaPendentes(hos_repasse_medico) = <<>>)
        => (login = "nao" /\ nav_calls = {})

\* ---- C11
\* C11: a record whose status is no longer 'P' is left as it is by every step
\* (its row keeps every field, status and message included), and no executar
\* pass selects it.
C11_SemRetorno ==
    [][ \A i \in DOMAIN hos_repasse_medico :
           hos_repasse_medico[i].status # "P"
               => /\ i \in DOMAIN hos_repasse_medico'
                  /\ hos_repasse_medico'[i] = hos_repasse_medico[i]
                  /\ \A j \in DOMAIN tabela' :
                        tabela'[j].nr_repasse # hos_repasse_medico[i].nr_repasse ]_vars

\* A rerun whose import fetched the transfer number of a terminal record and
\* whose executar pass has selected its pending records.
C11_Witness ==
    /\ AposExecutar /\ execucoes >= 2
    /\ tabela # <<>>
    /\ \E i \in DOMAIN hos_repasse_medico :
         /\ hos_repasse_medico[i].status # "P"
         /\ \E k \in DOMAIN rows : rows[k].nr_repasse = hos_repasse_medico[i].nr_repasse

\* ---- C12
\* C12: a handle the constructor was given is open and was never closed by the
\* engine, in every state from construction to the end of finalizar.
C12_NaoFechaFornecido ==
    /\ fornecido.db => (db = "aberta" /\ fechamentos.db = 0)
    /\ fornecido.navegador => (navegador = "aberto" /\ fechamentos.navegador = 0)

\* A whole run, finalizar included, of an engine that was given both handles.
C12_Witness ==
    /\ pc = "fim"
    /\ fornecido.db
    /\ fornecido.navegador
    /\ login # "nao"

\* ---- C13
\* C13: when finalizar has run, every handle the engine created itself was
\* closed, and no handle is closed more than once; this on every path to the
\* end of the run, the paths on which inicializar or a later phase raised
\* included.
C13_FechaOQueCriou ==
    /\ fechamentos.db <= 1
    /\ fechamentos.navegador <= 1
    /\ pc = "fim" =>
         /\ (~fornecido.db /\ db # "None")
                => (db = "fechada" /\ fechamentos.db = 1)
         /\ (~fornecido.navegador /\ navegador # "None")
                => (navegador = "fechado" /\ fechamentos.navegador = 1)

\* inicializar created the browser and then failed to connect to the
\* database; finalizar has run.
C13_Witness ==
    /\ pc = "fim"
    /\ excecao = "inicializar"
    /\ ~fornecido.navegador /\ navegador = "fechado"
    /\ db = "None"

\* ---- C14
\* The summaries bd_importar_contas can log.
Resumos == { Resumo(q, t) : q \in 0..(FetchFirst + 1), t \in 0..(FetchFirst + 1) }

\* C14: when bd_importar_contas has returned, its return value is the number
\* of rows the staging table gained, each of them has status 'P', and the one
\* summary in the log is '[returned/fetched]' (it is in the log whenever
\* registrar_log has a sink that works: dev mode, or the log procedure).
C14_RetornoEResumo ==
    AposImportar
        => /\ qtd_importados = Len(hos_repasse_medico) - Len(antes)
           /\ \A i \in (Len(antes) + 1)..Len(hos_repasse_medico) :
                  hos_repasse_medico[i].status = "P"
           /\ \A e \in log :
                  e.mensagem \in Resumos => e.mensagem = Resumo(qtd_importados, Len(rows))
           /\ (dev_mode \/ pr_registrar_log = "ok")
                  => \E e \in log : e.mensagem = Resumo(qtd_importados, Len(rows))

\* The example of the claim: three rows fetched, the transfer number of one
\* of them staged before, 2/3 reported.
C14_Witness ==
    /\ AposImportar
    /\ Len(rows) = 3
    /\ Cardinality({ i \in DOMAIN rows : Staged(antes, rows[i].nr_repasse) }) = 1
    /\ qtd_importados = 2
    /\ \E e \in log : e.mensagem = "Dados Importados com Sucesso: [2/3]"

\* ---- C15
\* An insert of transfer nr failed in this process: logger.exception recorded it.
FalhaRegistrada(nr) ==
    \E e \in log : e.mensagem = "Falha ao inserir repasse" /\ e.registro = nr

\* C15: bd_importar_contas returns normally whatever inserts failed; every
\* fetched row is then staged, or the failure of its insert is in the log; and
\* the rows staged before the failure are still there.
C15_FalhaNaoAborta ==
    AposImportar
        => /\ \A i \in DOMAIN rows :
                  Staged(hos_repasse_medico, rows[i].nr_repasse)
                      \/ FalhaRegistrada(rows[i].nr_repasse)
           /\ \A i \in DOMAIN antes : Staged(hos_repasse_medico, antes[i].nr_repasse)
           /\ Len(hos_repasse_medico) = Len(antes) + qtd_importados

\* The insert of the second of three fetched rows failed; the first and the
\* third were inserted by this import.
C15_Witness ==
    /\ AposImportar
    /\ Len(rows) = 3
    /\ FalhaRegistrada(rows[2].nr_repasse)
    /\ ~Staged(hos_repasse_medico, rows[2].nr_repasse)
    /\ \A i \in {1, 3} : /\ ~Staged(antes, rows[i].nr_repasse)
                         /\ Staged(hos_repasse_medico, rows[i].nr_repasse)

\* ---- C16
\* C16: when bd_importar_contas has returned, every row the staging table held
\* when it began is at its place with every field as it was.
C16_ImportNaoAltera ==
    AposImportar
        => \A i \in DOMAIN antes :
               i \in DOMAIN hos_repasse_medico /\ hos_repasse_medico[i] = antes[i]

\* The import fetched a source row whose transfer number was staged with a
\* terminal status and other field values than the source row has.
C16_Witness ==
    /\ AposImportar
    /\ \E i \in DOMAIN antes, k \in DOMAIN rows :
         /\ antes[i].nr_repasse = rows[k].nr_repasse
         /\ antes[i].status # "P"
         /\ antes[i].email # rows[k].email

\* ---- C17
\* C17: when executar has returned after a successful login, every pending
\* record it selected with a required field missing (the transition to
\* "incomplete", which needs no browser) has a terminal status and a message
\* in its row, and registrar_log was given that message.
C17_TerminalComMensagemELog ==
    (AposExecutar /\ login = "True" /\ (dev_mode \/ pr_registrar_log = "ok"))
        => \A i \in DOMAIN tabela :
               Incompleto(tabela[i])
                   => \E j \in DOMAIN hos_repasse_medico :
                         /\ hos_repasse_medico[j].nr_repasse = tabela[i].nr_repasse
                         /\ hos_repasse_medico[j].status \in {"E", "I", "False"}
                         /\ hos_repasse_medico[j].mensagem # "None"
                         /\ \E e \in log : e.mensagem = hos_repasse_medico[j].mensagem

\* ---- C18
\* The status values: pending, sent, ignored, and the failure marker.
StatusValidos == {"P", "E", "I", "False"}

\* C18: in every reachable state the status of every staged record is one of
\* P, E, I and the failure marker.
C18_DominioDoStatus ==
    \A i \in DOMAIN hos_repasse_medico : hos_repasse_medico[i].status \in StatusValidos

\* An import has added rows to a staging table that held a terminal record.
C18_Witness ==
    /\ AposImportar
    /\ qtd_importados >= 2
    /\ \E i \in DOMAIN antes : antes[i].status # "P"

\* ---- C19
\* C19: when executar has returned after a successful login, for every
\* complete pending record of a third party the ERP resolves, the field
\* DS_EMAIL_DESTINO was filled with the test address in dev mode and with the
\* record's email otherwise.
C19_DestinoDoEmail ==
    (AposExecutar /\ login = "True")
        => \A i \in DOMAIN tabela :
               (~Incompleto(tabela[i]) /\ tabela[i].seq_terceiro \in TerceirosErp)
                   => ("DS_EMAIL_DESTINO=" \o Destino(tabela[i])) \in nav_calls

\* ---- C20
\* C20: the pending records executar has selected to go through are in
\* release-date ascending order.
C20_OrdemDeLiberacao ==
    (AposExecutar /\ login = "True")
        => \A i, j \in DOMAIN tabela :
               i < j => tabela[i].dt_lib_titulo <= tabela[j].dt_lib_titulo

\* ---- C21
\* C21: registrar_log never raises to its caller, in no call any phase makes.
C21_RegistrarLogNaoLevanta == "registrar_log" \notin levantou

\* A whole run with a DB handle in which the log procedure fails at every call.
C21_Witness ==
    /\ pc = "fim"
    /\ pr_registrar_log = "erro"
    /\ db # "None"
    /\ Entrada("console", "ERROR", "Falha ao registrar log no banco", 0, 0) \in log
    /\ "executar" \in { fases[i] : i \in DOMAIN fases }

\* ---- C22
\* C22: a message passed to registrar_log is recorded in a sink; so when
\* finalizar has run, the message of its registrar_log call is in the log.
C22_MensagemEmAlgumSink ==
    pc = "fim" => \E e \in log : e.mensagem = "Fim Robo"

\* ---- C23
\* What finalizar leaves once it has run: it did not raise, and the handles the
\* engine created are closed.
FinalizarLimpou ==
    /\ "finalizar" \notin levantou
    /\ (~fornecido.db /\ db # "None") => db = "fechada"
    /\ (~fornecido.navegador /\ navegador # "None") => navegador = "fechado"

\* C23 as stated: finalizar always attempts the finalize procedure call, does
\* not raise and closes the owned handles.
C23_SempreTentaFinalizar ==
    pc = "fim" => (finalizacao # "nao" /\ FinalizarLimpou)

\* C23 as amended: finalizar attempts the finalize procedure call whenever the
\* engine has a DB handle; whether the call fails or not, finalizar does not
\* raise and closes the owned handles.
C23_TentaFinalizarComDb ==
    pc = "fim" => ((db # "None" => finalizacao # "nao") /\ FinalizarLimpou)

\* The finalize call failed; the connection and the browser the engine had
\* created are closed.
C23_Witness ==
    /\ pc = "fim"
    /\ finalizacao = "erro"
    /\ ~fornecido.db /\ db = "fechada"
    /\ ~fornecido.navegador /\ navegador = "fechado"

\* ---- C24
\* The call of the create-run procedure raised in this process.
RegistroFalhou ==
    Entrada("console", "ERROR", "Erro ao criar o controle de execucao", 0, 0) \in log

\* The phases main goes through, in order.
Ordem == <<"conectar", "construir", "inicializar", "bd_importar_contas", "executar">>

FasesDe(f) == { f[i] : i \in DOMAIN f }

\* C24: when the create-run call raised, inicializar did not raise, the run id
\* is null, and the import runs next; the phases after it run too unless one
\* of them raises or the process is interrupted.
C24_RegistroFalhoNaoAborta ==
    RegistroFalhou
        => /\ "inicializar" \notin levantou
           /\ controle_execucao = 0
           /\ pc \in {"bd_importar_contas", "executar", "finalizar", "fim", "morto"}
           /\ pc \in {"executar", "finalizar", "fim", "morto"}
                  => "bd_importar_contas" \in FasesDe(fases)
           /\ (pc = "fim" /\ levantou = {} /\ saida = "normal")
                  => fases = Ordem \o <<"finalizar">>

\* A whole run after a failed registration.
C24_Witness ==
    /\ RegistroFalhou
    /\ pc = "fim"
    /\ fases = Ordem \o <<"finalizar">>
    /\ login = "True"

\* ---- C25
\* C25: the phases run in main's order, one after the other; after a phase
\* raised the next phase is finalizar; main ends only after finalizar, and
\* normally, unless the process was interrupted.
C25_OrdemDasFases ==
    /\ \E n \in 0..Len(Ordem) :
          \/ fases = SubSeq(Ordem, 1, n)
          \/ fases = SubSeq(Ordem, 1, n) \o <<"finalizar">>
    /\ excecao # "nenhuma" => pc \in {"finalizar", "fim"}
    /\ pc = "fim" => /\ Len(fases) >= 4
                     /\ fases[Len(fases)] = "finalizar"
                     /\ saida # "KeyboardInterrupt" => saida = "normal"

\* The import raised; finalizar has run and main has ended normally.
C25_Witness ==
    /\ pc = "fim"
    /\ excecao = "bd_importar_contas"
    /\ fases = <<"conectar", "construir", "inicializar", "bd_importar_contas", "finalizar">>
    /\ saida = "normal"

\* ---- C26
\* C26: when main has ended and the engine has no browser or no DB connection
\* (it could not be established), neither the import nor executar was called,
\* finalizar was, and main ended normally.
C26_SemConexaoAbortaARun ==
    (pc = "fim" /\ (navegador = "None" \/ db = "None"))
        => /\ "bd_importar_contas" \notin FasesDe(fases)
           /\ "executar" \notin FasesDe(fases)
           /\ "finalizar" \in FasesDe(fases)
           /\ excecao = "inicializar"
           /\ saida = "normal"

\* Neither main nor inicializar could connect to the database; the browser
\* that inicializar had created is closed.
C26_Witness ==
    /\ pc = "fim"
    /\ db = "None"
    /\ navegador = "fechado"
    /\ AvisoConexao \in log

\* ---- C27
\* C27 as stated: for a process interrupted during executar the finalize
\* procedure is not called.
C27_InterrompidoFicaRunning ==
    saida \in {"KeyboardInterrupt", "SIGKILL"} => finalizacao = "nao"

\* C27 as amended: an interrupt during executar aborts the batch.  When it
\* ends the process at once (SIGKILL), finalizar does not run and the finalize
\* procedure is not called; when it is a KeyboardInterrupt, finalizar runs in
\* main's finally clause and calls the finalize procedure if the engine has a
\* DB handle, and the KeyboardInterrupt then leaves main.
C27_SoMortoFicaRunning ==
    /\ saida \in {"KeyboardInterrupt", "SIGKILL"}
          => (login = "nao" /\ tabela = <<>> /\ "executar" \in FasesDe(fases))
    /\ saida = "SIGKILL"
          => (pc = "morto" /\ finalizacao = "nao" /\ "finalizar" \notin FasesDe(fases))
    /\ saida = "KeyboardInterrupt"
          => /\ pc \in {"finalizar", "fim"}
             /\ pc = "fim" => ("finalizar" \in FasesDe(fases)
                               /\ (db # "None" => finalizacao # "nao"))

\* A registered run that a KeyboardInterrupt ended during executar, with
\* pending records staged: finalizar has called the finalize procedure.
C27_Witness ==
    /\ pc = "fim"
    /\ saida = "KeyboardInterrupt"
    /\ controle_execucao # 0
    /\ finalizacao = "ok"
    /\ ConsultaPendentes(hos_repasse_medico) # <<>>

\* ---- C28
\* C28: verificar_existencia_elemento returns True when the element is present
\* within the timeout and False when it is not.
C28_VerificarExistencia ==
    web.chamada = "verificar_existencia_elemento"
        => /\ web.excecao = "nenhuma"
           /\ web.retorno = (IF web.dom[web.alvo] <= web.timeout THEN "True" ELSE "False")

\* ---- C29
\* C29: _encontrar_elemento, click_elemento and definir_valor raise
\* TimeoutException when the element is not present within the timeout.
C29_AusenteLevantaTimeout ==
    (/\ web.chamada \in {"_encontrar_elemento", "click_elemento", "definir_valor"}
     /\ web.dom[web.alvo] > web.timeout)
        => web.excecao = "TimeoutException"

\* ---- C30
\* C30: a step of executar leaves every row of the staging table as it is and
\* makes no browser call other than those of the login.
C30_ExecutarNaoAltera ==
    [][ pc = "executar"
           => /\ hos_repasse_medico' = hos_repasse_medico
              /\ nav_calls' \subseteq {"navegar", "login", "menu"} ]_vars

\* executar has returned after a successful login with an incomplete and a
\* complete pending record selected.
C30_Witness ==
    /\ AposExecutar
    /\ login = "True"
    /\ \E i, j \in DOMAIN tabela :
         /\ Incompleto(tabela[i])
         /\ ~Incompleto(tabela[j]) /\ tabela[j].seq_terceiro \in TerceirosErp

\* ---- C31
\* The steps of a send, in the order of the loop body.
PassosDoEnvio ==
    <<"nome", "abrir_linha", "selecionar_repasse", "enviar_email", "email_destino", "submit">>

C32_PollLimitado ==
    /\ [](/\ repasse.tentativa <= MaxTentativas
          /\ repasse.esperas = repasse.tentativa
          /\ repasse.leitura = "excecao"
                => (repasse.seq_encontrado = "None" /\ repasse.erro # "AttributeError"))
    /\ [][ repasse'.tentativa > repasse.tentativa => repasse.leitura # "nome" ]_vars
    /\ (repasse.fase = "poll") ~> (repasse.fase # "poll")

\* The poll has ended at a name that the seventh read or a later one returned,
\* the read before the last having raised.
C32_Witness ==
    /\ repasse.fase = "enviar"
    /\ repasse.tentativa >= 7 /\ repasse.tentativa < MaxTentativas
    /\ repasse.leitura = "nome"
    /\ repasse.esperas = repasse.tentativa

\* ---- C33
\* The errors of the thin mode that the thick mode may cure.
ErrosDoModoThin ==
    {"init_oracle_client() must be called first", "DPY-2021", "DPY-3015", "password verifier"}

\* C33: the construction connects in thin mode first; it connects in thick
\* mode only after a thin-mode error of the known kind, with an Instant Client
\* directory found and initialised; after another error, or without an
\* initialised client, the error of the thin connection leaves it; and it
\* ends with a connection or with an exception, never with neither or both.
C33_ThinDepoisThick ==
    cliente.chamado =>
        LET a == cliente.amb
            r == cliente.resultado
            dir == LibDir(a.env_dir, a.existentes)
        IN  /\ r.tentativas \in {<<>>, <<"thin">>, <<"thin", "thick">>}
            /\ r.tentativas = <<>> => r.excecao \in {"RuntimeError", "ValueError"}
            /\ r.tentativas = <<"thin", "thick">>
                  => (a.thin \in ErrosDoModoThin /\ dir # "None" /\ r.lib_dir = dir
                      /\ r.init_chamado /\ a.init = "ok")
            /\ (r.tentativas # <<>> /\ a.thin # "ok"
                /\ (a.thin \notin ErrosDoModoThin \/ dir = "None" \/ a.init # "ok"))
                  => (r.tentativas = <<"thin">> /\ r.excecao = a.thin)
            /\ (r.conn # "None") = (r.excecao = "nenhuma")
            /\ r.conn = "thin" => a.thin = "ok"
            /\ r.conn = "thick" => a.thick = "ok"

\* A thick-mode connection after DPY-3015, the client taken from the second of
\* the common paths, no environment variable being set.
C33_Witness ==
    /\ cliente.chamado
    /\ cliente.amb.thin = "DPY-3015"
    /\ cliente.amb.env_dir = ""
    /\ cliente.resultado.lib_dir = "instantclient_23_9"
    /\ cliente.resultado.conn = "thick"

C35_SemInanicao ==
    (AposImportar /\ n_importacoes >= 2 /\ falhas = 0)
        => \A r \in view : Elegivel(r) => Staged(hos_repasse_medico, r.nr_repasse)

\* ---- C36
\* The existence check of a fetched row raised in this process.
ExistenciaFalhou == "execute_scalar" \in levantou

\* C36: when the existence check of a row raised, the exception left
\* bd_importar_contas; the staging table gained rows only from the fetched
\* rows before that row; no summary is in the log; executar was not called and
\* finalizar is next (or has run).
C36_ExistenciaPropaga ==
    ExistenciaFalhou
        => /\ "bd_importar_contas" \in levantou
           /\ excecao = "bd_importar_contas"
           /\ verificadas < Len(rows)
           /\ Len(hos_repasse_medico) <= Len(antes) + verificadas
           /\ \A i \in (Len(antes) + 1)..Len(hos_repasse_medico) :
                 \E k \in 1..verificadas :
                     rows[k].nr_repasse = hos_repasse_medico[i].nr_repasse
           /\ \A e \in log : e.mensagem \notin Resumos
           /\ pc \in {"finalizar", "fim"}
           /\ "executar" \notin FasesDe(fases)

\* The check of the second of three fetched rows raised: the first row was
\* inserted, the third was not, and finalizar has run.
C36_Witness ==
    /\ ExistenciaFalhou
    /\ pc = "fim"
    /\ Len(rows) = 3 /\ verificadas = 1
    /\ Len(hos_repasse_medico) = Len(antes) + 1
    /\ ~Staged(hos_repasse_medico, rows[3].nr_repasse)

\* ---- C37
\* The fetch of the credential or its split failed in inicializar.
CredencialFalhou ==
    Entrada("console", "ERROR", "Erro ao registrar controle de execucao", 0, 0) \in log

\* The create-run procedure was called in this process.
RegistroTentado == controle_execucao # 0 \/ RegistroFalhou

\* C37 as stated: the create-run call is made only with the URL fetched and
\* the credential split; when the fetch of the URL or of the credential, or
\* the split, failed, the call is not made, inicializar does not raise and the
\* run id is null.
C37_RegistroSoAposParametros ==
    /\ RegistroTentado => (url_tasy # "unset" /\ usuario_tasy = "ok")
    /\ (url_tasy = "None" \/ CredencialFalhou)
          => /\ ~RegistroTentado
             /\ controle_execucao = 0
             /\ "inicializar" \notin levantou /\ excecao # "inicializar"

\* C37 as amended: the create-run call is made only after both fetches and
\* with the credential split; when the fetch of the credential or its split
\* failed, the call is not made, inicializar does not raise and the run id is
\* null.  (A URL fetch that fails leaves the URL null and does not keep the
\* call from being made.)
C37_RegistroSoAposCredencial ==
    /\ RegistroTentado => (url_tasy # "unset" /\ usuario_tasy = "ok")
    /\ CredencialFalhou
          => /\ ~RegistroTentado
             /\ controle_execucao = 0
             /\ "inicializar" \notin levantou /\ excecao # "inicializar"
             /\ pc \in {"bd_importar_contas", "executar", "finalizar", "fim", "morto"}

\* The credential could not be used; the run went on to its end unregistered.
C37_Witness ==
    /\ CredencialFalhou
    /\ pc = "fim"
    /\ url_tasy = "url"
    /\ controle_execucao = 0
    /\ fases = Ordem \o <<"finalizar">>

\* ---- C38
\* C38: the log procedure and the finalize procedure are called only with the
\* id of a registered run: no entry of the run's log in the database carries
\* the id 0, and the finalize procedure is not called while the run id is null.
C38_SoIdRegistrado ==
    /\ \A e \in log : e.sink = "banco" => e.id # 0
    /\ finalizacao # "nao" => controle_execucao # 0

\* ---- C39
\* C39: when main has returned, no DB connection of the process is open.
C39_ConexoesFechadas == pc = "fim" => db # "aberta"

====
